---- MODULE Spec2Model ----
(***************************************************************************)
(* Model of the unsync byte buffers of stbuehler/bytes: the tagged Storage *)
(* (src/src/unsync/storage.rs) and the three wrappers UnBytes, UnBytesMut  *)
(* and UnBytesExt over it.  The heap is modelled explicitly: byte vectors  *)
(* (Vec<u8>) live at addresses, Shared blocks (Box<Shared>) at addresses   *)
(* of their own, and a Storage holds the tag word, ptr, len, cap and the   *)
(* inline payload exactly as the struct does.                              *)
(***************************************************************************)
EXTENDS Integers, Sequences, FiniteSets, TLC

VARIABLES hs, shared, vecs, status, last, snap, steps, it

vars == <<hs, shared, vecs, status, last, snap, steps, it>>

(***************************************************************************)
(* Sizes.                                                                  *)
(***************************************************************************)
\* size_of::<usize>() of the modelled (64-bit, little-endian) build
WordBytes == 8
\* mem::size_of::<Storage>() - 1
INLINE_CAPACITY == 4 * WordBytes - 1
\* the literal of `offset < 32` in reserve_from_vec
KeepOffsetBelow == 32

\* handle slots of the client program
NSlots == 3
\* simultaneously live byte vectors
MaxAllocs == 3
\* simultaneously live Shared blocks
MaxShared == 2
\* largest vector capacity the allocator hands out; also the distance of two
\* allocation addresses, so that a vector of this capacity ends where the next
\* one begins
MaxVecCap == 40
\* public calls per run
MaxSteps == 3
\* public calls on a buffer that has been built
ShareSteps == 4

Slots == 1 .. NSlots
\* slot 0 holds the temporary of an operation (a local variable of the code)
Tmp == 0
AllSlots == 0 .. NSlots
AllocIds == 1 .. MaxAllocs
\* addresses of Box<Shared>: aligned, and above the first page
ShBase == 4 * 1024
ShAddrs == {ShBase + 32 * k : k \in 1 .. MaxShared}
\* the static (read-only) data of the program: addresses 0 .. StaticLen-1
StaticLen == INLINE_CAPACITY + 3
\* byte values
Uninit == 0 - 1
Unmapped == 0 - 2
StaticByte(addr) == 200 + addr
\* the i-th byte (1-based) of the data a client passes to a constructor
SrcByte(i) == i
SrcData(n) == [k \in 1 .. n |-> SrcByte(k)]
\* the bytes a client appends
AppByte(i) == 100 + i
AppData(n) == [k \in 1 .. n |-> AppByte(k)]
\* the byte a client stores through DerefMut
PokeByte == 255

Min(S) == CHOOSE x \in S : \A y \in S : x <= y
Max(S) == CHOOSE x \in S : \A y \in S : x >= y

(***************************************************************************)
(* KindTag: the discriminant word.                                         *)
(***************************************************************************)
is_inline(t) == (t \div 2) % 2 = 1

is_static(t) == t = 0

is_vec(t) == t % 2 = 1

decode_inline_len(t) == (t % 256) \div 4

is_inline_empty(t) == t % 256 = 2

\* Kind of a tag word, as KindTag::decode tests the bits
Kind(t) ==
    IF t = 0 THEN "Static"
    ELSE IF t % 2 = 1 THEN "Vec"
    ELSE IF (t \div 2) % 2 = 1 THEN "Inline"
    ELSE "Shared"

VecOffset(t) == t \div 4

EncodeVec(offset) == offset * 4 + 1

EncodeInline(len) == len * 4 + 2

\* self.0.set(self.0.get() + skip << 2): `+` binds tighter than `<<`
advance_vec(t, skip) == (t + skip) * 4

\* (tag & !0xff) | 0x02; the upper bytes of the word are inline payload
set_empty_tag(t) == 2

\* (tag & !0xfc) | (len << 2)
set_inline_len(t, len) == (t \div 256) * 256 + (t % 4) + len * 4

(***************************************************************************)
(* Storage values and the heap.                                            *)
(***************************************************************************)
NoPayload == [k \in 1 .. INLINE_CAPACITY |-> Uninit]

\* Storage::new(): mem::uninitialized() with the tag set to empty inline
StorageNew == [tag |-> 2, ptr |-> 0, len |-> 0, cap |-> 0, inl |-> NoPayload]

FreeHandle == [w |-> "Free", st |-> StorageNew]

NoVec == [live |-> FALSE, cap |-> 0, bytes |-> <<>>]

NoShared == [live |-> FALSE, ptr |-> 0, cap |-> 0, ref_count |-> 0]

VBase(a) == a * MaxVecCap

\* the byte at an address: static data, a live vector, or nothing
ReadByte(w, addr) ==
    IF addr < StaticLen THEN StaticByte(addr)
    ELSE LET a == addr \div MaxVecCap
             o == addr % MaxVecCap
         IN IF a \in AllocIds /\ w.vecs[a].live /\ o < w.vecs[a].cap
            THEN w.vecs[a].bytes[o + 1]
            ELSE Unmapped

Mapped(w, addr) ==
    LET a == addr \div MaxVecCap
    IN a \in AllocIds /\ w.vecs[a].live /\ addr % MaxVecCap < w.vecs[a].cap

\* ptr::copy / copy_from_slice of `data` to `addr`: every byte lands where the
\* address points; a byte outside every live vector corrupts the heap
WriteBytes(w, addr, data) ==
    LET n == Len(data)
        hit(a) == w.vecs[a].live /\ addr + n > VBase(a) /\ addr < VBase(a) + w.vecs[a].cap
        newbytes(a) ==
            [k \in 1 .. w.vecs[a].cap |->
                LET ad == VBase(a) + k - 1
                IN IF ad >= addr /\ ad < addr + n THEN data[ad - addr + 1]
                   ELSE w.vecs[a].bytes[k]]
        stray == \E k \in 0 .. n - 1 : ~Mapped(w, addr + k)
    IN [w EXCEPT !.vecs = [a \in AllocIds |->
                              IF hit(a) THEN [w.vecs[a] EXCEPT !.bytes = newbytes(a)]
                              ELSE w.vecs[a]],
                 !.ub = w.ub \/ stray]

St(w, i) == w.hs[i].st

SetSt(w, i, st) == [w EXCEPT !.hs[i].st = st]

Panic(w) == [w EXCEPT !.st = "panic"]

\* a fault on dereferencing a pointer that points to nothing
Crash(w) == [w EXCEPT !.st = "fault"]

\* the allocator is handed a pointer it never returned, or returned twice
BadFree(w) == [w EXCEPT !.st = "badfree"]

OutOfBound(w) == [w EXCEPT !.st = "bound"]

\* Vec::with_capacity(cap) holding `data`: a fresh allocation of exactly cap
\* bytes (none for cap = 0).  The vector is returned in w.v as (ptr, len, cap).
VecAlloc(w, cap, data) ==
    IF w.st # "run" THEN w
    ELSE LET free == {a \in AllocIds : ~w.vecs[a].live}
         IN IF cap > MaxVecCap \/ free = {} \/ cap = 0 THEN OutOfBound(w)
            ELSE LET a == Min(free)
                 IN [w EXCEPT !.vecs[a] =
                                  [live |-> TRUE, cap |-> cap,
                                   bytes |-> [k \in 1 .. cap |->
                                       IF k <= Len(data) THEN data[k] ELSE Uninit]],
                              !.v = [ptr |-> VBase(a), len |-> Len(data), cap |-> cap]]

\* drop(Vec::from_raw_parts(ptr, len, cap)): frees the allocation at ptr
VecFree(w, v) ==
    IF w.st # "run" THEN w
    ELSE LET a == v.ptr \div MaxVecCap
         IN IF v.ptr % MaxVecCap = 0 /\ a \in AllocIds /\ w.vecs[a].live
               /\ w.vecs[a].cap = v.cap
            THEN [w EXCEPT !.vecs[a] = NoVec]
            ELSE BadFree(w)

\* the bytes [from, from+n) of a vector
VecBytes(w, v, from, n) == [k \in 1 .. n |-> ReadByte(w, v.ptr + from + k - 1)]


(***************************************************************************)
(* KindShared: the reference-counted block.  A tag that is no live block   *)
(* is a wild pointer; every wild pointer the model can build lies below    *)
(* the first mapped page, so the dereference faults.                       *)
(***************************************************************************)
IsBlock(w, rc) == rc \in ShAddrs /\ w.shared[rc].live

\* the block is not given back
KS_keep_block(w, rc) == w

KS_free_block(w, rc) ==
    IF w.st # "run" THEN w ELSE [w EXCEPT !.shared[rc] = NoShared]

KS_release(w, rc) ==
    IF w.st # "run" THEN w
    ELSE IF ~IsBlock(w, rc) THEN Crash(w)
    ELSE IF w.shared[rc].ref_count - 1 > 0
    THEN [w EXCEPT !.shared[rc].ref_count = w.shared[rc].ref_count - 1]
    ELSE KS_free_block(
            IF w.shared[rc].ptr # 0
            THEN VecFree(w, [ptr |-> w.shared[rc].ptr, len |-> 0,
                             cap |-> w.shared[rc].cap])
            ELSE w, rc)

\* acquire without counting
KS_acquire_uncounted(w, rc) ==
    IF w.st # "run" THEN w ELSE IF ~IsBlock(w, rc) THEN Crash(w) ELSE w

KS_acquire(w, rc) ==
    IF w.st # "run" THEN w
    ELSE IF ~IsBlock(w, rc) THEN Crash(w)
    ELSE [w EXCEPT !.shared[rc].ref_count = w.shared[rc].ref_count + 1]

\* Some((vec, offset)) is returned as w.v and w.ret = offset, None as w.ret = -1
KS_try_into_vec(w, rc, i) ==
    IF w.st # "run" THEN w
    ELSE IF ~IsBlock(w, rc) THEN Crash(w)
    ELSE LET sh == w.shared[rc]
             st == St(w, i)
             offset == st.ptr - sh.ptr
         IN IF 1 # sh.ref_count THEN [w EXCEPT !.ret = 0 - 1]
            ELSE [w EXCEPT !.hs[i].st.tag = set_empty_tag(st.tag),
                           !.v = [ptr |-> sh.ptr, len |-> offset + st.len, cap |-> sh.cap],
                           !.ret = offset,
                           !.shared[rc] = NoShared]

\* Box::new(Shared {ptr, cap, ref_count: 2}); the block's address is w.ret
KS_new2(w, v) ==
    IF w.st # "run" THEN w
    ELSE LET free == {a \in ShAddrs : ~w.shared[a].live}
         IN IF free = {} THEN OutOfBound(w)
            ELSE LET rc == Min(free)
                 IN [w EXCEPT !.shared[rc] = [live |-> TRUE, ptr |-> v.ptr,
                                              cap |-> v.cap, ref_count |-> 2],
                              !.ret = rc]

(***************************************************************************)
(* KindVec                                                                 *)
(***************************************************************************)
\* the vector is returned as w.v; the storage is left empty inline
KV_rebuild_vec(w, offset, i) ==
    IF w.st # "run" THEN w
    ELSE LET st == St(w, i)
         IN [w EXCEPT !.v = [ptr |-> st.ptr - offset, len |-> st.len + offset,
                             cap |-> st.cap + offset],
                      !.hs[i].st.tag = set_empty_tag(st.tag)]

\* store that encodes offset 0 whatever the offset
KV_store_front(w, offset, v, i) ==
    IF w.st # "run" THEN w
    ELSE SetSt(w, i, [tag |-> EncodeVec(0), ptr |-> v.ptr + offset,
                      len |-> v.len - offset, cap |-> v.cap - offset,
                      inl |-> NoPayload])

\* KindVec{offset}.store(v) into slot i (capacities of 2^62 and more, which
\* would become Shared through new1, are beyond every allocation)
KV_store(w, offset, v, i) ==
    IF w.st # "run" THEN w
    ELSE SetSt(w, i, [tag |-> EncodeVec(offset), ptr |-> v.ptr + offset,
                      len |-> v.len - offset, cap |-> v.cap - offset,
                      inl |-> NoPayload])

(***************************************************************************)
(* Storage: read access                                                    *)
(***************************************************************************)
\* the len field, whatever the kind
len_field(st) == st.len

\* Storage::len
len(st) == IF is_inline(st.tag) THEN decode_inline_len(st.tag) ELSE st.len

is_empty(st) == IF is_inline(st.tag) THEN is_inline_empty(st.tag) ELSE 0 = st.len

capacity(st) == IF is_inline(st.tag) THEN INLINE_CAPACITY ELSE st.cap

\* the slice data(): raw_data() read through the heap
data(w, st) ==
    IF is_inline(st.tag)
    THEN SubSeq(st.inl, 1, decode_inline_len(st.tag))
    ELSE [k \in 1 .. st.len |-> ReadByte(w, st.ptr + k - 1)]

reserved_len(st) ==
    IF is_inline(st.tag) THEN INLINE_CAPACITY - decode_inline_len(st.tag)
    ELSE st.cap - st.len

\* the length of the slice reserved() hands out
reserved_slice_len(st) ==
    IF is_inline(st.tag) THEN INLINE_CAPACITY ELSE st.cap

\* Buf::remaining
remaining(st) == len(st)

(***************************************************************************)
(* Storage: construction and release                                       *)
(***************************************************************************)
\* the vector a callee returned in w.v is dropped
VecFreeV(w) == IF w.st # "run" THEN w ELSE VecFree(w, w.v)

SetTagEmpty(w, i) ==
    IF w.st # "run" THEN w
    ELSE [w EXCEPT !.hs[i].st.tag = set_empty_tag(St(w, i).tag)]

\* Storage::set_empty(&mut self): drop current data, release all refs
S_set_empty(w, i) ==
    IF w.st # "run" THEN w
    ELSE CASE Kind(St(w, i).tag) \in {"Static", "Inline"} -> w
           [] Kind(St(w, i).tag) = "Vec" ->
                 VecFreeV(KV_rebuild_vec(w, VecOffset(St(w, i).tag), i))
           [] OTHER -> SetTagEmpty(KS_release(w, St(w, i).tag), i)

GiveUpSlot(w, i) == IF w.st # "run" THEN w ELSE [w EXCEPT !.hs[i] = FreeHandle]

\* impl Drop for Storage, and the slot is given up
S_drop(w, i) ==
    IF w.st # "run" THEN w
    ELSE GiveUpSlot(
            CASE Kind(St(w, i).tag) \in {"Static", "Inline"} -> w
              [] Kind(St(w, i).tag) = "Vec" ->
                    VecFreeV(KV_rebuild_vec(w, VecOffset(St(w, i).tag), i))
              [] OTHER -> KS_release(w, St(w, i).tag),
            i)

\* Storage::from_static(data) for the static bytes [begin, begin+n)
S_from_static(w, i, begin, n) ==
    SetSt(w, i, [tag |-> 0, ptr |-> begin, len |-> n, cap |-> n, inl |-> NoPayload])

\* Storage::from_data_inline(data)
S_from_data_inline(w, i, bytes) ==
    IF w.st # "run" THEN w
    ELSE SetSt(w, i, [tag |-> set_inline_len(StorageNew.tag, Len(bytes)),
                      ptr |-> 0, len |-> 0, cap |-> 0,
                      inl |-> [k \in 1 .. INLINE_CAPACITY |->
                                  IF k <= Len(bytes) THEN bytes[k] ELSE Uninit]])

\* KindVec{offset}.store of the vector a callee returned in w.v
KV_storeV(w, offset, i) == IF w.st # "run" THEN w ELSE KV_store(w, offset, w.v, i)

\* Storage::alloc_vec(capacity)
S_alloc_vec(w, i, cap) == KV_storeV(VecAlloc(w, cap, <<>>), 0, i)

\* Storage::with_capacity_and_data(capacity, data)
S_with_capacity_and_data(w, i, cap, bytes) ==
    IF cap <= INLINE_CAPACITY THEN S_from_data_inline(w, i, bytes)
    ELSE KV_storeV(VecAlloc(w, cap, bytes), 0, i)

\* Storage::with_capacity(capacity)
S_with_capacity(w, i, cap) ==
    IF cap <= INLINE_CAPACITY THEN SetSt(w, i, StorageNew)
    ELSE S_alloc_vec(w, i, cap)

\* ptr::copy(data, storage.ptr, data.len()); storage.len = data.len()
FillData(w, i, bytes) ==
    IF w.st # "run" THEN w
    ELSE [WriteBytes(w, St(w, i).ptr, bytes) EXCEPT !.hs[i].st.len = Len(bytes)]

\* from_data that always allocates a vector
S_from_data_heap(w, i, bytes) == FillData(S_alloc_vec(w, i, Len(bytes)), i, bytes)

\* Storage::from_data(data)
S_from_data(w, i, bytes) ==
    IF Len(bytes) <= INLINE_CAPACITY THEN S_from_data_inline(w, i, bytes)
    ELSE FillData(S_alloc_vec(w, i, Len(bytes)), i, bytes)

\* Storage::from_vec(data, offset); the vector is consumed (a panic drops it)
S_from_vec(w, i, v, offset) ==
    IF w.st # "run" THEN w
    ELSE IF ~(offset <= v.len) THEN Panic(VecFree(w, v))
    ELSE IF v.len - offset <= INLINE_CAPACITY
    THEN VecFree(S_from_data_inline(w, i, VecBytes(w, v, offset, v.len - offset)), v)
    ELSE KV_store(w, offset, v, i)

S_from_vecV(w, i, offset) ==
    IF w.st # "run" THEN w ELSE S_from_vec(w, i, w.v, offset)

KS_new2V(w) == IF w.st # "run" THEN w ELSE KS_new2(w, w.v)

\* self.kind.set(s.into()) for the block a callee returned in w.ret
RetagShared(w, i) ==
    IF w.st # "run" THEN w ELSE [w EXCEPT !.hs[i].st.tag = w.ret]

\* ptr::read(self) into slot j
CopySlot(w, i, j) == IF w.st # "run" THEN w ELSE SetSt(w, j, St(w, i))

\* a clone that copies the bytes into a storage of its own
S_shallow_clone_copying(w, i, j) ==
    IF w.st # "run" THEN w ELSE S_from_data(w, j, data(w, St(w, i)))

\* Storage::shallow_clone(&self) of slot i into slot j
S_shallow_clone(w, i, j) ==
    IF w.st # "run" THEN w
    ELSE CopySlot(
            CASE Kind(St(w, i).tag) \in {"Static", "Inline"} -> w
              [] Kind(St(w, i).tag) = "Shared" -> KS_acquire(w, St(w, i).tag)
              [] OTHER ->
                    RetagShared(
                        KS_new2V(KV_rebuild_vec(w, VecOffset(St(w, i).tag), i)), i),
            i, j)

(***************************************************************************)
(* Storage: mutation                                                       *)
(***************************************************************************)
\* truncate that gives up the capacity behind the new length
S_truncate_shrinking(w, i, n) ==
    IF w.st # "run" THEN w
    ELSE IF is_inline(St(w, i).tag)
    THEN IF n < decode_inline_len(St(w, i).tag)
         THEN [w EXCEPT !.hs[i].st.tag = set_inline_len(St(w, i).tag, n)]
         ELSE w
    ELSE IF n < St(w, i).len
    THEN [w EXCEPT !.hs[i].st.len = n, !.hs[i].st.cap = n]
    ELSE w

\* Storage::truncate(len)
S_truncate(w, i, n) ==
    IF w.st # "run" THEN w
    ELSE LET st == St(w, i)
         IN IF is_inline(st.tag)
            THEN IF n < decode_inline_len(st.tag)
                 THEN [w EXCEPT !.hs[i].st.tag = set_inline_len(st.tag, n)]
                 ELSE w
            ELSE IF n < st.len THEN [w EXCEPT !.hs[i].st.len = n] ELSE w

\* truncate_capacity that cuts the length and leaves the capacity
S_truncate_capacity_len_only(w, i, n) == S_truncate(w, i, n)

\* Storage::truncate_capacity(len)
S_truncate_capacity(w, i, n) ==
    IF w.st # "run" THEN w
    ELSE LET st == St(w, i)
         IN CASE Kind(st.tag) \in {"Static", "Vec"} ->
                    IF n < st.len THEN [w EXCEPT !.hs[i].st.len = n] ELSE w
              [] Kind(st.tag) = "Inline" ->
                    IF n < decode_inline_len(st.tag)
                    THEN [w EXCEPT !.hs[i].st.tag = set_inline_len(st.tag, n)]
                    ELSE w
              [] OTHER ->
                    IF n < st.len
                    THEN [w EXCEPT !.hs[i].st.len = n, !.hs[i].st.cap = n]
                    ELSE IF n < st.cap THEN [w EXCEPT !.hs[i].st.cap = n]
                    ELSE w

\* Storage::inc_len(len)
S_inc_len(w, i, n) ==
    IF w.st # "run" THEN w
    ELSE LET st == St(w, i)
         IN IF is_inline(st.tag)
            THEN IF ~(n <= INLINE_CAPACITY - decode_inline_len(st.tag)) THEN Panic(w)
                 ELSE [w EXCEPT !.hs[i].st.tag =
                                    set_inline_len(st.tag, decode_inline_len(st.tag) + n)]
            ELSE IF ~(n <= st.cap - st.len) THEN Panic(w)
                 ELSE [w EXCEPT !.hs[i].st.len = st.len + n]

\* set_len without the capacity check
S_set_len_unchecked(w, i, n) ==
    IF w.st # "run" THEN w
    ELSE IF is_inline(St(w, i).tag)
    THEN [w EXCEPT !.hs[i].st.tag = set_inline_len(St(w, i).tag, n % (INLINE_CAPACITY + 1))]
    ELSE [w EXCEPT !.hs[i].st.len = n]

\* Storage::set_len(len)
S_set_len(w, i, n) ==
    IF w.st # "run" THEN w
    ELSE LET st == St(w, i)
         IN IF is_inline(st.tag)
            THEN IF ~(n <= INLINE_CAPACITY) THEN Panic(w)
                 ELSE [w EXCEPT !.hs[i].st.tag = set_inline_len(st.tag, n)]
            ELSE IF ~(n <= st.cap) THEN Panic(w)
                 ELSE [w EXCEPT !.hs[i].st.len = n]

\* Vec::reserve(additional) on the vector v: nothing when the spare capacity
\* suffices, else the allocation is replaced by one of the amortized size
\* max(2 * cap, len + additional) (no more than the allocator's largest) and
\* the initialised bytes move over
VecReserve(w, v, additional) ==
    IF w.st # "run" THEN w
    ELSE IF v.cap - v.len >= additional THEN [w EXCEPT !.v = v]
    ELSE VecAlloc(VecFree(w, v),
                  IF Max({2 * v.cap, v.len + additional}) > MaxVecCap
                     /\ v.len + additional <= MaxVecCap
                  THEN MaxVecCap ELSE Max({2 * v.cap, v.len + additional}),
                  VecBytes(w, v, 0, v.len))

\* Storage::reserve_from_vec(data, offset, additional) into slot i
S_reserve_from_vec(w, i, v, offset, additional) ==
    IF w.st # "run" THEN w
    ELSE LET content_len == v.len - offset
             required == content_len + additional
         IN IF v.cap < required
            THEN KV_store(IF offset > 0 /\ content_len > 0
                          THEN WriteBytes(w, v.ptr, VecBytes(w, v, offset, content_len))
                          ELSE w,
                          0, [v EXCEPT !.len = content_len], i)
            ELSE IF offset < KeepOffsetBelow
            THEN KV_storeV(VecReserve(w, v, additional), offset, i)
            ELSE VecFree(S_with_capacity_and_data(w, i, required,
                                                  VecBytes(w, v, offset, content_len)),
                         v)

S_reserve_from_vecV(w, i, offset, additional) ==
    IF w.st # "run" THEN w ELSE S_reserve_from_vec(w, i, w.v, offset, additional)

\* `*self = storage` for the storage built in the temporary
MoveTmp(w, i) ==
    IF w.st # "run" THEN w
    ELSE [w EXCEPT !.hs[i].st = St(w, Tmp), !.hs[Tmp] = FreeHandle]

\* the Shared arm of reserve after s.try_into_vec(self) returned
S_reserve_shared(w, i, st, additional) ==
    IF w.st # "run" THEN w
    ELSE IF w.ret >= 0 THEN S_reserve_from_vec(w, i, w.v, w.ret, additional)
    ELSE MoveTmp(KS_release(S_with_capacity_and_data(w, Tmp, st.len + additional,
                                                     data(w, st)),
                            st.tag),
                 i)

\* Storage::reserve(additional)
S_reserve(w, i, additional) ==
    IF w.st # "run" THEN w
    ELSE IF 0 = additional THEN w
    ELSE LET st == St(w, i)
             t == St(w, i).tag
         IN CASE Kind(t) = "Static" -> Panic(w)
              [] Kind(t) = "Vec" ->
                    IF st.len + additional > st.cap
                    THEN S_reserve_from_vecV(KV_rebuild_vec(w, VecOffset(t), i), i,
                                             VecOffset(t), additional)
                    ELSE w
              [] Kind(t) = "Inline" ->
                    IF decode_inline_len(t) + additional > INLINE_CAPACITY
                    THEN S_with_capacity_and_data(w, i, decode_inline_len(t) + additional,
                                                  data(w, st))
                    ELSE w
              [] OTHER ->
                    IF st.len + additional > st.cap
                    THEN S_reserve_shared(KS_try_into_vec(w, t, i), i, st, additional)
                    ELSE w

\* the address reserved() starts at
reserved_begin(st) ==
    IF is_inline(st.tag) THEN decode_inline_len(st.tag) ELSE st.ptr + st.len

\* self.reserved()[..n].copy_from_slice(bytes): the slice index panics when n
\* exceeds the length of the slice reserved() returns; the bytes that fit the
\* inline payload are stored there, those past it leave the Storage value
WriteReserved(w, i, bytes) ==
    IF w.st # "run" THEN w
    ELSE LET st == St(w, i)
             n == Len(bytes)
             b == reserved_begin(st)
         IN IF n > reserved_slice_len(st) THEN Panic(w)
            ELSE IF is_inline(st.tag)
            THEN [w EXCEPT !.hs[i].st.inl =
                               [k \in 1 .. INLINE_CAPACITY |->
                                   IF k > b /\ k <= b + n THEN bytes[k - b]
                                   ELSE st.inl[k]],
                           !.ub = w.ub \/ (b + n > INLINE_CAPACITY)]
            ELSE WriteBytes(w, b, bytes)

\* Storage::extend(data)
S_extend(w, i, bytes) ==
    S_inc_len(WriteReserved(S_reserve(w, i, Len(bytes)), i, bytes), i, Len(bytes))

\* Storage::append(data)
S_append(w, i, byte) ==
    S_inc_len(WriteReserved(S_reserve(w, i, 1), i, <<byte>>), i, 1)

\* Storage::put_slice(data)
S_put_slice(w, i, bytes) ==
    S_inc_len(WriteReserved(w, i, bytes), i, Len(bytes))

\* Storage::put_u8(data)
S_put_u8(w, i, byte) ==
    S_inc_len(WriteReserved(w, i, <<byte>>), i, 1)


(***************************************************************************)
(* Storage: advancing, splitting, merging, upgrading                       *)
(***************************************************************************)
\* Storage::advance(skip)
S_advance(w, i, skip) ==
    IF w.st # "run" THEN w
    ELSE LET st == St(w, i)
         IN IF is_inline(st.tag)
            THEN LET l == decode_inline_len(st.tag)
                 IN IF ~(skip <= l) THEN Panic(w)
                    ELSE [w EXCEPT !.hs[i].st.inl =
                                       [k \in 1 .. INLINE_CAPACITY |->
                                           IF k <= l - skip THEN st.inl[k + skip]
                                           ELSE st.inl[k]],
                                   !.hs[i].st.tag = set_inline_len(st.tag, l - skip)]
            ELSE IF ~(skip <= st.len) THEN Panic(w)
            ELSE IF skip = st.cap THEN S_set_empty(w, i)
            ELSE [w EXCEPT !.hs[i].st.tag =
                               IF is_vec(st.tag) THEN advance_vec(st.tag, skip) ELSE st.tag,
                           !.hs[i].st.ptr = st.ptr + skip,
                           !.hs[i].st.len = st.len - skip,
                           !.hs[i].st.cap = st.cap - skip]

\* Storage::split_off(at): the tail goes to slot j
S_split_off(w, i, j, at) ==
    S_truncate_capacity(S_advance(S_shallow_clone(w, i, j), j, at), i, at)

\* Storage::split_to(at): the head goes to slot j
S_split_to(w, i, j, at) ==
    S_truncate_capacity(S_advance(S_shallow_clone(w, i, j), i, at), j, at)

\* Storage::take()
S_take(w, i, j) == S_split_to(w, i, j, len(St(w, i)))

\* upgrade that grants every storage
S_upgrade_any(w, i) == IF w.st # "run" THEN w ELSE [w EXCEPT !.ret = 1]

\* Storage::upgrade(): w.ret = 1 for true, 0 for false
S_upgrade(w, i) ==
    IF w.st # "run" THEN w
    ELSE LET st == St(w, i)
             t == st.tag
         IN CASE Kind(t) = "Static" -> [w EXCEPT !.ret = 0]
              [] Kind(t) = "Shared" ->
                    IF ~IsBlock(w, t) THEN Crash(w)
                    ELSE IF 1 = w.shared[t].ref_count
                    THEN [w EXCEPT !.hs[i].st.cap =
                                       w.shared[t].cap - (st.ptr - w.shared[t].ptr),
                                   !.ret = 1]
                    ELSE [w EXCEPT !.ret = 0]
              [] OTHER -> [w EXCEPT !.ret = 1]

MoveIn(w, i, j, wr) ==
    IF w.st # "run" THEN w
    ELSE [w EXCEPT !.hs[i] = [w |-> wr, st |-> St(w, j)], !.hs[j] = FreeHandle]

\* `*self = other`: the old value of slot i is dropped, slot j moves in
S_assign(w, i, j) == MoveIn(S_drop(w, i), i, j, w.hs[i].w)

\* Storage::try_unsplit(other) with other in slot j: w.ret = 1 for Ok(()), in
\* which case other is gone, and 0 for Err(other), which stays in slot j
S_try_unsplit(w, i, j) ==
    IF w.st # "run" THEN w
    ELSE LET self == St(w, i)
             other == St(w, j)
         IN IF is_empty(other) THEN [S_drop(w, j) EXCEPT !.ret = 1]
            ELSE IF is_inline(self.tag)
            THEN IF is_inline_empty(self.tag)
                 THEN [S_assign(w, i, j) EXCEPT !.ret = 1]
                 ELSE [w EXCEPT !.ret = 0]
            ELSE IF 0 = self.len THEN [S_assign(w, i, j) EXCEPT !.ret = 1]
            ELSE IF is_inline(other.tag) THEN [w EXCEPT !.ret = 0]
            ELSE IF self.ptr + self.len = other.ptr
                    /\ ~is_vec(self.tag) /\ ~is_vec(other.tag)
            THEN LET w1 == [w EXCEPT !.hs[i].st.cap = self.len + other.cap,
                                     !.hs[i].st.len = self.len + other.cap]
                 IN [S_drop(w1, j) EXCEPT !.ret = 1]
            ELSE [w EXCEPT !.ret = 0]

\* Storage::try_into_vec(self): Ok((vec, offset)) is the vector in w.v and
\* w.ret = offset, Err(self) is w.ret = -1 with the storage still in slot i
S_try_into_vec(w, i) ==
    IF w.st # "run" THEN w
    ELSE CASE Kind(St(w, i).tag) \in {"Static", "Inline"} -> [w EXCEPT !.ret = 0 - 1]
           [] Kind(St(w, i).tag) = "Vec" ->
                 [KV_rebuild_vec(w, VecOffset(St(w, i).tag), i)
                     EXCEPT !.ret = VecOffset(St(w, i).tag)]
           [] OTHER -> KS_try_into_vec(w, St(w, i).tag, i)

\* new.ptr += begin; new.len = len; new.cap = len
SliceWindow(w, j, begin, n) ==
    IF w.st # "run" THEN w
    ELSE [w EXCEPT !.hs[j].st.ptr = St(w, j).ptr + begin,
                   !.hs[j].st.len = n,
                   !.hs[j].st.cap = n]

\* Storage::slice_len(begin, len): self[begin..][..len] into slot j; the
\* slice expression &self.data()[begin..][..len] panics out of range
S_slice_len(w, i, j, begin, n) ==
    IF w.st # "run" THEN w
    ELSE IF 0 = n THEN SetSt(w, j, StorageNew)
    ELSE IF n <= INLINE_CAPACITY
    THEN IF begin <= len(St(w, i)) /\ n <= len(St(w, i)) - begin
         THEN S_from_data_inline(w, j, SubSeq(data(w, St(w, i)), begin + 1, begin + n))
         ELSE Panic(w)
    ELSE IF is_inline(St(w, i).tag) THEN Panic(w)
    ELSE IF ~(begin < St(w, i).len /\ begin + n < St(w, i).len) THEN Panic(w)
    ELSE SliceWindow(S_shallow_clone(w, i, j), j, begin, n)

\* Storage::slice(begin, end)
S_slice(w, i, j, begin, end) ==
    IF w.st # "run" THEN w
    ELSE IF ~(begin <= end) THEN Panic(w)
    ELSE S_slice_len(w, i, j, begin, end - begin)

\* Storage::slice_from(begin).  For begin > len the subtraction len - begin
\* overflows: a build with overflow checks panics there; a build without
\* them passes a length near 2^64, above INLINE_CAPACITY and above every
\* length, and one of the two asserts of slice_len panics.
S_slice_from(w, i, j, begin) ==
    IF w.st # "run" THEN w
    ELSE IF begin > len(St(w, i)) THEN Panic(w)
    ELSE S_slice_len(w, i, j, begin, len(St(w, i)) - begin)

\* Storage::slice_to(end)
S_slice_to(w, i, j, end) == S_slice_len(w, i, j, 0, end)

(***************************************************************************)
(* The wrappers.  A handle is a wrapper kind and its Storage.              *)
(***************************************************************************)
Mutable == {"Mut", "Ext"}
Wrappers == {"Ro", "Mut", "Ext"}

Live(i) == hs[i].w # "Free"

\* the program's handles and heap at the start of a call, with the call's
\* bookkeeping: st (run, panic, fault, badfree, bound), ub (a write left every
\* allocation), v (a Vec<u8> passed between functions) and ret (a return value)
World == [hs |-> hs, shared |-> shared, vecs |-> vecs, st |-> "run", ub |-> FALSE,
          v |-> [ptr |-> 0, len |-> 0, cap |-> 0], ret |-> 0]

\* no handle, nothing allocated
Empty == [hs |-> [i \in AllSlots |-> FreeHandle],
          shared |-> [a \in ShAddrs |-> NoShared],
          vecs |-> [a \in AllocIds |-> NoVec],
          st |-> "run", ub |-> FALSE,
          v |-> [ptr |-> 0, len |-> 0, cap |-> 0], ret |-> 0]

\* the lowest free slot receives a new handle
FreeSlot == Min({i \in Slots : ~Live(i)})
HasFree == \E i \in Slots : ~Live(i)

MarkPanic(w) == IF w.st = "run" THEN [w EXCEPT !.st = "panic"] ELSE w

\* a panic unwinds: the temporary of the call (slot t) is dropped
Unwind(w, t) ==
    IF w.st # "panic" THEN w ELSE MarkPanic(S_drop([w EXCEPT !.st = "run"], t))

Result(w) ==
    CASE w.st = "run" -> IF w.ret = 0 THEN "err" ELSE "ok"
      [] w.st = "panic" -> "panic"
      [] OTHER -> w.st

NoSnap == [set |-> FALSE, bytes |-> <<>>]

\* the client's byte iterator: Iter<T> {pos, len, data} over the wrapper in
\* `slot` or SliceIter {ptr, end} over its slice (ptr and end count from
\* data.as_ptr()), with what the calls on it returned: ret is the last
\* Option<u8>, front and back the bytes next() and next_back() yielded, none
\* whether a None was returned, again whether a Some came after a None
NoIter == [kind |-> "none", slot |-> 0, pos |-> 0, len |-> 0, ptr |-> 0, end |-> 0,
           ret |-> <<>>, front |-> <<>>, back |-> <<>>, none |-> FALSE,
           again |-> FALSE]

\* no vector was returned to the client
NoOut == [ptr |-> 0, len |-> 0, cap |-> 0, off |-> 0]

\* the end of a public call: the heap and the handles become the program's
\* state; a fault or an allocator abort ends the process; after a write
\* outside every allocation the process goes on or dies.  `last` records the
\* call (receiver h, other handle o, argument, result, the receiver's bytes,
\* tag word, capacity and block ref_count before the call, the number of
\* Shared blocks the call released, the vector and offset try_into_vec
\* returned) and `snap` the bytes a clone and its original had when the
\* clone was made, for as long as the handle has not been operated on since.
Commit(w, op, h, o, arg) ==
    /\ status = "run"
    /\ steps > 0
    /\ w.st # "bound"
    /\ hs' = w.hs
    /\ shared' = w.shared
    /\ vecs' = w.vecs
    /\ status' \in (IF w.st \in {"fault", "badfree"} THEN {"dead"}
                    ELSE IF w.ub THEN {"run", "dead"} ELSE {"run"})
    /\ last' = [op |-> op, h |-> h, o |-> o, arg |-> arg, res |-> Result(w),
                stray |-> w.ub, pre |-> data(World, hs[h].st), tag |-> hs[h].st.tag,
                rel |-> Cardinality({rc \in ShAddrs :
                                        shared[rc].live /\ ~w.shared[rc].live}),
                cap |-> capacity(hs[h].st),
                cnt |-> IF IsBlock(World, hs[h].st.tag)
                        THEN shared[hs[h].st.tag].ref_count ELSE 0,
                out |-> IF op = "try_into_vec" /\ w.st = "run" /\ w.ret = 1
                        THEN w.v ELSE NoOut]
    /\ snap' = [k \in Slots |->
                   IF k \in {h, o}
                   THEN IF op = "clone" /\ w.st = "run"
                        THEN [set |-> TRUE, bytes |-> data(World, hs[h].st)]
                        ELSE NoSnap
                   ELSE snap[k]]
    /\ steps' = steps - 1
    /\ it' = it

Ok(w) == [w EXCEPT !.ret = 1]

Mk(w, i, wr) == [w EXCEPT !.hs[i].w = wr]


\* lengths of the data and capacities a client asks for
SmallLen == 3
BigLen == INLINE_CAPACITY + 3
\* positions a client splits, advances or truncates at: both ends, next to
\* them, one past the end, and the offset reserve_from_vec compares against
Points(n) == {p \in {0, 1, n - 1, n, n + 1, KeepOffsetBelow} : p >= 0 /\ p <= n + 1}

(***************************************************************************)
(* Construction                                                            *)
(***************************************************************************)
\* UnBytes::new / UnBytesMut::new / UnBytesExt::new
New(wr) ==
    /\ HasFree
    /\ Commit(Ok(SetSt(Mk(World, FreeSlot, wr), FreeSlot, StorageNew)),
              "new", FreeSlot, 0, 0)

\* with_capacity(n) of the three wrappers
WithCapacity(wr, n) ==
    /\ HasFree
    /\ Commit(Ok(S_with_capacity(Mk(World, FreeSlot, wr), FreeSlot, n)),
              "with_capacity", FreeSlot, 0, n)

\* UnBytes::from_static(&STATIC[begin .. begin + n])
FromStatic(begin, n) ==
    /\ HasFree
    /\ Commit(Ok(S_from_static(Mk(World, FreeSlot, "Ro"), FreeSlot, begin, n)),
              "from_static", FreeSlot, 0, n)

\* From<&[u8]>: Storage::from_data
FromSlice(wr, n) ==
    /\ HasFree
    /\ Commit(Ok(S_from_data(Mk(World, FreeSlot, wr), FreeSlot, SrcData(n))),
              "from_slice", FreeSlot, 0, n)

\* From<Vec<u8>> for a vector of length n and capacity cap
FromVec(wr, n, cap) ==
    /\ HasFree
    /\ Commit(Ok(S_from_vecV(VecAlloc(Mk(World, FreeSlot, wr), cap, SrcData(n)),
                             FreeSlot, 0)),
              "from_vec", FreeSlot, 0, n)

\* Storage::from_vec(v, offset) for a vector of length n and capacity cap
FromVecAt(wr, n, cap, offset) ==
    /\ HasFree /\ n <= cap
    /\ Commit(Ok(Unwind(S_from_vecV(VecAlloc(Mk(World, FreeSlot, wr), cap, SrcData(n)),
                                    FreeSlot, offset),
                        FreeSlot)),
              "from_vec_at", FreeSlot, 0, <<n, offset>>)

(***************************************************************************)
(* Cloning, conversion, release                                            *)
(***************************************************************************)
\* Clone: shallow for UnBytes, Storage::from_data(self) for the mutable kinds
Clone(i) ==
    /\ Live(i) /\ HasFree
    /\ LET w0 == Mk(World, FreeSlot, hs[i].w)
       IN Commit(Ok(IF hs[i].w = "Ro" THEN S_shallow_clone(w0, i, FreeSlot)
                    ELSE S_from_data(w0, FreeSlot, data(w0, St(w0, i)))),
                 "clone", i, FreeSlot, 0)

\* UnBytesMut::freeze / UnBytesExt::freeze
Freeze(i) ==
    /\ Live(i) /\ hs[i].w \in Mutable
    /\ Commit(Ok(Mk(World, i, "Ro")), "freeze", i, 0, 0)

MkIfOk(w, i, wr) == IF w.st = "run" /\ w.ret = 1 THEN Mk(w, i, wr) ELSE w

\* UnBytes::try_mut / try_ext
TryMutate(i, wr) ==
    /\ Live(i) /\ hs[i].w = "Ro" /\ wr \in Mutable
    /\ Commit(MkIfOk(S_upgrade(World, i), i, wr), "try_mut", i, 0, 0)

FromRoArm(w, i, wr) ==
    IF w.st # "run" THEN w
    ELSE IF w.ret = 1 THEN Mk(w, i, wr)
    ELSE MoveIn(S_drop(S_from_data(w, Tmp, data(w, St(w, i))), i), i, Tmp, wr)

\* From<UnBytes> for UnBytesMut / UnBytesExt
FromRo(i, wr) ==
    /\ Live(i) /\ hs[i].w = "Ro" /\ wr \in Mutable
    /\ Commit(Ok(FromRoArm(S_upgrade(World, i), i, wr)), "from_ro", i, 0, 0)

\* From<UnBytesExt> for UnBytesMut and From<UnBytesMut> for UnBytesExt
Convert(i) ==
    /\ Live(i) /\ hs[i].w \in Mutable
    /\ Commit(Ok(Mk(World, i, IF hs[i].w = "Mut" THEN "Ext" ELSE "Mut")),
              "convert", i, 0, 0)

\* the handle goes out of scope
Drop(i) ==
    /\ Live(i)
    /\ Commit(Ok(S_drop(World, i)), "drop", i, 0, 0)

\* the Ok arm hands the vector and the offset to the client and the emptied
\* storage goes out of scope; the Err arm hands the storage back
IntoVecArm(w, i) ==
    IF w.st # "run" THEN w
    ELSE IF w.ret >= 0
    THEN [S_drop(w, i) EXCEPT !.ret = 1,
                              !.v = [ptr |-> w.v.ptr, len |-> w.v.len,
                                     cap |-> w.v.cap, off |-> w.ret]]
    ELSE [w EXCEPT !.ret = 0]

\* try_into_vec(self) of the three wrappers
TryIntoVec(i) ==
    /\ Live(i)
    /\ Commit(IntoVecArm(S_try_into_vec(World, i), i), "try_into_vec", i, 0, 0)

(***************************************************************************)
(* Window operations                                                       *)
(***************************************************************************)
\* UnBytes::slice(begin, end)
Slice(i, begin, end) ==
    /\ Live(i) /\ HasFree /\ hs[i].w = "Ro"
    /\ Commit(Ok(Unwind(S_slice(Mk(World, FreeSlot, "Ro"), i, FreeSlot, begin, end),
                        FreeSlot)),
              "slice", i, FreeSlot, <<begin, end>>)

\* UnBytes::slice_from(begin)
SliceFrom(i, begin) ==
    /\ Live(i) /\ HasFree /\ hs[i].w = "Ro"
    /\ Commit(Ok(Unwind(S_slice_from(Mk(World, FreeSlot, "Ro"), i, FreeSlot, begin),
                        FreeSlot)),
              "slice_from", i, FreeSlot, begin)

\* UnBytes::slice_to(end)
SliceTo(i, end) ==
    /\ Live(i) /\ HasFree /\ hs[i].w = "Ro"
    /\ Commit(Ok(Unwind(S_slice_to(Mk(World, FreeSlot, "Ro"), i, FreeSlot, end),
                        FreeSlot)),
              "slice_to", i, FreeSlot, end)

\* split_off(at) of the three wrappers
SplitOff(i, at) ==
    /\ Live(i) /\ HasFree
    /\ Commit(Ok(Unwind(S_split_off(Mk(World, FreeSlot, hs[i].w), i, FreeSlot, at),
                        FreeSlot)),
              "split_off", i, FreeSlot, at)

SplitTo(i, at) ==
    /\ Live(i) /\ HasFree
    /\ Commit(Ok(Unwind(S_split_to(Mk(World, FreeSlot, hs[i].w), i, FreeSlot, at),
                        FreeSlot)),
              "split_to", i, FreeSlot, at)

\* UnBytesMut::take / UnBytesExt::take
Take(i) ==
    /\ Live(i) /\ HasFree /\ hs[i].w \in Mutable
    /\ Commit(Ok(S_take(Mk(World, FreeSlot, hs[i].w), i, FreeSlot)),
              "take", i, FreeSlot, len(hs[i].st))

\* advance(skip), also Buf::advance
Advance(i, skip) ==
    /\ Live(i)
    /\ Commit(Ok(S_advance(World, i, skip)), "advance", i, 0, skip)

\* truncate(len); clear() is truncate(0)
Truncate(i, n) ==
    /\ Live(i)
    /\ Commit(Ok(S_truncate(World, i, n)), "truncate", i, 0, n)


(***************************************************************************)
(* Growing and writing                                                     *)
(***************************************************************************)
\* numbers of bytes a client reserves or appends: none, one, what fits, one more
Amounts(st) == {0, 1, reserved_len(st), reserved_len(st) + 1}

\* UnBytesMut::reserve / UnBytesExt::reserve
Reserve(i, additional) ==
    /\ Live(i) /\ hs[i].w \in Mutable
    /\ Commit(Ok(S_reserve(World, i, additional)), "reserve", i, 0, additional)

EmptyRo(w, i) ==
    IF w.st # "run" THEN w
    ELSE [w EXCEPT !.hs[i] = [w |-> "Ro", st |-> StorageNew], !.st = "panic"]

\* the receiver of a panicking UnBytes::extend_from_slice is the UnBytes::new()
\* that mem::replace left in it; the buffer being built (slot t) and the old
\* value (slot i) are dropped
LoseSelf(w, i, t) ==
    EmptyRo(S_drop(S_drop([w EXCEPT !.st = "run"], i), t), i)

\* the Ok arm: the buffer is extended in place
RoExtendOwned(w, i) == IF w.st = "panic" THEN LoseSelf(w, i, Tmp) ELSE w

\* the Err arm: the end, `bytes` is dropped and self becomes the copy
RoExtendCopied(w, i) ==
    IF w.st = "panic" THEN LoseSelf(w, i, Tmp)
    ELSE MoveIn(S_drop(w, i), i, Tmp, "Ro")

RoExtendArm(w, i, bytes) ==
    IF w.st # "run" THEN w
    ELSE IF w.ret = 1 THEN RoExtendOwned(S_extend(w, i, bytes), i)
    ELSE RoExtendCopied(
            S_put_slice(
                S_put_slice(S_with_capacity(w, Tmp, len(St(w, i)) + Len(bytes)),
                            Tmp, data(w, St(w, i))),
                Tmp, bytes),
            i)

\* UnBytes::extend_from_slice(extend)
RoExtend(w, i, bytes) ==
    IF w.st # "run" \/ Len(bytes) = 0 THEN w
    ELSE RoExtendArm(S_upgrade(w, i), i, bytes)

\* extend_from_slice(extend) of the three wrappers
ExtendFromSlice(i, n) ==
    /\ Live(i)
    /\ Commit(Ok(IF hs[i].w = "Ro" THEN RoExtend(World, i, AppData(n))
                 ELSE S_extend(World, i, AppData(n))),
              "extend_from_slice", i, 0, n)

\* BufMut::put_slice: Storage::put_slice for UnBytesMut, extend for UnBytesExt
PutSlice(i, n) ==
    /\ Live(i) /\ hs[i].w \in Mutable
    /\ Commit(Ok(IF hs[i].w = "Mut" THEN S_put_slice(World, i, AppData(n))
                 ELSE S_extend(World, i, AppData(n))),
              "put_slice", i, 0, n)

\* BufMut::put_u8: Storage::put_u8 for UnBytesMut, append for UnBytesExt
PutU8(i) ==
    /\ Live(i) /\ hs[i].w \in Mutable
    /\ Commit(Ok(IF hs[i].w = "Mut" THEN S_put_u8(World, i, AppByte(1))
                 ELSE S_append(World, i, AppByte(1))),
              "put_u8", i, 0, 1)

\* write_str that reserves what it needs on both mutable wrappers
WriteStr_growing(i, n) ==
    /\ Live(i) /\ hs[i].w \in Mutable
    /\ Commit(Ok(S_extend(World, i, AppData(n))), "write_str", i, 0, n)

\* fmt::Write::write_str: Err(fmt::Error) is w.ret = 0
WriteStr(i, n) ==
    /\ Live(i) /\ hs[i].w \in Mutable
    /\ Commit(IF hs[i].w = "Mut"
              THEN IF reserved_len(hs[i].st) >= n
                   THEN Ok(S_put_slice(World, i, AppData(n)))
                   ELSE World
              ELSE Ok(S_extend(World, i, AppData(n))),
              "write_str", i, 0, n)

\* BufMut::advance_mut(cnt): Storage::inc_len
AdvanceMut(i, n) ==
    /\ Live(i) /\ hs[i].w \in Mutable
    /\ Commit(Ok(S_inc_len(World, i, n)), "advance_mut", i, 0, n)

\* UnBytesMut::set_len / UnBytesExt::set_len
SetLen(i, n) ==
    /\ Live(i) /\ hs[i].w \in Mutable
    /\ Commit(Ok(S_set_len(World, i, n)), "set_len", i, 0, n)

\* DerefMut: self[k] = PokeByte through data_mut() (k counts from 1)
Poke(i, k) ==
    /\ Live(i) /\ hs[i].w \in Mutable /\ k >= 1 /\ k <= len(hs[i].st)
    /\ Commit(Ok(IF is_inline(hs[i].st.tag)
                 THEN [World EXCEPT !.hs[i].st.inl[k] = PokeByte]
                 ELSE WriteBytes(World, hs[i].st.ptr + k - 1, <<PokeByte>>)),
              "poke", i, 0, k)

(***************************************************************************)
(* Merging                                                                 *)
(***************************************************************************)
\* try_unsplit(other) of the three wrappers
TryUnsplit(i, j) ==
    /\ Live(i) /\ Live(j) /\ i # j /\ hs[i].w = hs[j].w
    /\ Commit(S_try_unsplit(World, i, j), "try_unsplit", i, j, 0)

UnsplitArm(w, i, j, wr) ==
    IF w.st # "run" \/ w.ret = 1 THEN w
    ELSE S_drop(Unwind(IF wr = "Ro" THEN RoExtend(w, i, data(w, St(w, j)))
                       ELSE S_extend(w, i, data(w, St(w, j))),
                       j),
                j)

\* unsplit(other): try_unsplit, and extend_from_slice(&other) on Err(other)
Unsplit(i, j) ==
    /\ Live(i) /\ Live(j) /\ i # j /\ hs[i].w = hs[j].w
    /\ Commit(Ok(UnsplitArm(S_try_unsplit(World, i, j), i, j, hs[i].w)),
              "unsplit", i, j, 0)

(***************************************************************************)
(* The program: a client making public calls on up to NSlots handles.      *)
(***************************************************************************)
\* the program holds the handles and the heap of w and may make n calls
StartWith(w, n) ==
    /\ hs = w.hs
    /\ shared = w.shared
    /\ vecs = w.vecs
    /\ status = "run"
    /\ last = [op |-> "init", h |-> 0, o |-> 0, arg |-> 0, res |-> "ok", stray |-> FALSE,
               pre |-> <<>>, tag |-> StorageNew.tag, rel |-> 0,
               cap |-> 0, cnt |-> 0, out |-> NoOut]
    /\ snap = [k \in Slots |-> NoSnap]
    /\ steps = n
    /\ it = NoIter

Init == StartWith(Empty, MaxSteps)

Next ==
    \/ \E wr \in Wrappers : New(wr)
    \/ \E wr \in Wrappers, n \in {SmallLen, INLINE_CAPACITY + 1, MaxVecCap} :
          WithCapacity(wr, n)
    \/ \E n \in {SmallLen, BigLen} : FromStatic(0, n)
    \/ \E wr \in Wrappers, n \in {SmallLen, BigLen} : FromSlice(wr, n)
    \/ \E wr \in Wrappers, n \in {SmallLen, BigLen}, cap \in {BigLen, MaxVecCap} :
          FromVec(wr, n, cap)
    \/ \E i \in Slots : Clone(i)
    \/ \E i \in Slots : Freeze(i)
    \/ \E i \in Slots, wr \in Mutable : TryMutate(i, wr)
    \/ \E i \in Slots, wr \in Mutable : FromRo(i, wr)
    \/ \E i \in Slots : Convert(i)
    \/ \E i \in Slots : Drop(i)
    \/ \E i \in Slots : \E at \in Points(len(hs[i].st)) : SplitOff(i, at)
    \/ \E i \in Slots : \E at \in Points(len(hs[i].st)) : SplitTo(i, at)
    \/ \E i \in Slots : Take(i)
    \/ \E i \in Slots : \E skip \in Points(len(hs[i].st)) : Advance(i, skip)
    \/ \E i \in Slots : \E n \in Points(len(hs[i].st)) : Truncate(i, n)
    \/ \E i \in Slots : \E n \in Amounts(hs[i].st) : Reserve(i, n)
    \/ \E i \in Slots : \E n \in Amounts(hs[i].st) : ExtendFromSlice(i, n)
    \/ \E i \in Slots : \E n \in Amounts(hs[i].st) : PutSlice(i, n)
    \/ \E i \in Slots : PutU8(i)
    \/ \E i \in Slots : \E n \in Amounts(hs[i].st) : WriteStr(i, n)
    \/ \E i \in Slots : \E n \in Amounts(hs[i].st) : AdvanceMut(i, n)
    \/ \E i \in Slots : \E n \in {0, capacity(hs[i].st), capacity(hs[i].st) + 1} :
          SetLen(i, n)
    \/ \E i \in Slots : \E k \in {1, len(hs[i].st)} : Poke(i, k)
    \/ \E i \in Slots, j \in Slots : TryUnsplit(i, j)
    \/ \E i \in Slots, j \in Slots : Unsplit(i, j)

Spec == Init /\ [][Next]_vars

(***************************************************************************)
(* The same client after it has built one buffer of BigLen bytes from a    *)
(* vector (read-only or mutable, with or without spare capacity): it       *)
(* clones, splits, merges, converts, grows and drops, ShareSteps calls.    *)
(***************************************************************************)
\* where this client cuts a buffer of n bytes: after the first byte, at the end
Cuts(n) == {p \in {1, n} : p <= n}

InitShare ==
    \E wr \in {"Ro", "Mut"}, cap \in {BigLen, MaxVecCap} :
        StartWith(S_from_vecV(VecAlloc(Mk(Empty, 1, wr), cap, SrcData(BigLen)), 1, 0),
                  ShareSteps)

NextShare ==
    \/ \E i \in Slots : Clone(i)
    \/ \E i \in Slots : Freeze(i)
    \/ \E i \in Slots : TryMutate(i, "Mut")
    \/ \E i \in Slots : FromRo(i, "Mut")
    \/ \E i \in Slots : Drop(i)
    \/ \E i \in Slots : \E at \in Cuts(len(hs[i].st)) : SplitOff(i, at)
    \/ \E i \in Slots : \E at \in Cuts(len(hs[i].st)) : SplitTo(i, at)
    \/ \E i \in Slots : Take(i)
    \/ \E i \in Slots : \E skip \in Cuts(len(hs[i].st)) : Advance(i, skip)
    \/ \E i \in Slots : Truncate(i, 1)
    \/ \E i \in Slots : Reserve(i, reserved_len(hs[i].st) + 1)
    \/ \E i \in Slots : ExtendFromSlice(i, 1)
    \/ \E i \in Slots, j \in Slots : TryUnsplit(i, j)
    \/ \E i \in Slots, j \in Slots : Unsplit(i, j)

SpecShare == InitShare /\ [][NextShare]_vars

(***************************************************************************)
(* A client that has built two buffers from two vectors, the first vector  *)
(* of the largest capacity, so that the second allocation begins where the *)
(* first one ends: it clones, splits, advances, merges and drops,          *)
(* PairSteps calls.                                                        *)
(***************************************************************************)
PairSteps == 4

InitPair ==
    \E wr \in {"Ro", "Mut"}, n \in {BigLen, MaxVecCap}, cap \in {BigLen, MaxVecCap} :
        StartWith(S_from_vecV(VecAlloc(S_from_vecV(VecAlloc(Mk(Mk(Empty, 1, wr), 2, wr),
                                                            MaxVecCap, SrcData(n)),
                                                   1, 0),
                                       cap, SrcData(BigLen)),
                              2, 0),
                  PairSteps)

NextPair ==
    \/ \E i \in Slots : Clone(i)
    \/ \E i \in Slots : Drop(i)
    \/ \E i \in Slots : \E at \in Cuts(len(hs[i].st)) : SplitOff(i, at)
    \/ \E i \in Slots : \E at \in Cuts(len(hs[i].st)) : SplitTo(i, at)
    \/ \E i \in Slots, j \in Slots : TryUnsplit(i, j)

SpecPair == InitPair /\ [][NextPair]_vars

(***************************************************************************)
(* A client that holds one buffer of each backend (static, inline or       *)
(* vector-backed, read-only or mutable) and looks at it: it slices,        *)
(* clones, advances, splits, freezes, asks for the mutable wrapper or for  *)
(* the vector, and drops, ViewSteps calls.                                 *)
(***************************************************************************)
ViewSteps == 3

ViewKinds == {"static", "inline", "vec"}

\* the buffer this client starts with
ViewSeed(kind, wr, n, cap) ==
    CASE kind = "static" -> S_from_static(Mk(Empty, 1, wr), 1, 0, n)
      [] kind = "inline" -> S_from_data(Mk(Empty, 1, wr), 1, SrcData(SmallLen))
      [] OTHER -> S_from_vecV(VecAlloc(Mk(Empty, 1, wr), cap, SrcData(BigLen)), 1, 0)

InitView ==
    \E kind \in ViewKinds, wr \in {"Ro", "Mut"}, n \in {SmallLen, BigLen},
       cap \in {BigLen, MaxVecCap} :
        /\ kind = "static" => wr = "Ro"
        /\ StartWith(ViewSeed(kind, wr, n, cap), ViewSteps)

NextView ==
    \/ \E i \in Slots : \E begin \in Points(len(hs[i].st)), end \in Points(len(hs[i].st)) :
          Slice(i, begin, end)
    \/ \E i \in Slots : \E begin \in Points(len(hs[i].st)) : SliceFrom(i, begin)
    \/ \E i \in Slots : \E end \in Points(len(hs[i].st)) : SliceTo(i, end)
    \/ \E i \in Slots : Clone(i)
    \/ \E i \in Slots : Freeze(i)
    \/ \E i \in Slots, wr \in Mutable : TryMutate(i, wr)
    \/ \E i \in Slots : TryIntoVec(i)
    \/ \E i \in Slots : Drop(i)
    \/ \E i \in Slots : \E at \in Cuts(len(hs[i].st)) : SplitOff(i, at)
    \/ \E i \in Slots : \E at \in Cuts(len(hs[i].st)) : SplitTo(i, at)
    \/ \E i \in Slots : Take(i)
    \/ \E i \in Slots : \E skip \in Cuts(len(hs[i].st)) : Advance(i, skip)

SpecView == InitView /\ [][NextView]_vars


(***************************************************************************)
(* A client that constructs buffers of every size around INLINE_CAPACITY   *)
(* (new, with_capacity, from a slice, from a vector at an offset), asks    *)
(* for the vector back and drops, BuildSteps calls.                        *)
(***************************************************************************)
BuildSteps == 2

BuildLens == {0, 1, SmallLen, INLINE_CAPACITY - 1, INLINE_CAPACITY,
              INLINE_CAPACITY + 1, BigLen, MaxVecCap}

\* offsets into a vector of n bytes: both ends, next to them, one past the
\* end, and the two that leave INLINE_CAPACITY and INLINE_CAPACITY + 1 bytes
BuildOffsets(n) ==
    {o \in {0, 1, n - INLINE_CAPACITY - 1, n - INLINE_CAPACITY, n, n + 1} : o >= 0}

NextBuild ==
    \/ \E wr \in Wrappers : New(wr)
    \/ \E wr \in Wrappers, n \in BuildLens : WithCapacity(wr, n)
    \/ \E wr \in Wrappers, n \in BuildLens : FromSlice(wr, n)
    \/ \E wr \in Wrappers, n \in BuildLens \ {0}, cap \in BuildLens :
          \E offset \in BuildOffsets(n) : FromVecAt(wr, n, cap, offset)
    \/ \E i \in Slots : TryIntoVec(i)
    \/ \E i \in Slots : Drop(i)

SpecBuild == StartWith(Empty, BuildSteps) /\ [][NextBuild]_vars

(***************************************************************************)
(* The byte iterators.                                                     *)
(***************************************************************************)
\* ExactSizeIterator::len of Iter and of SliceIter; size_hint and count
\* return the same number
iter_len(itr) ==
    IF itr.kind = "owned" THEN Len(data(World, hs[itr.slot].st)) - itr.pos
    ELSE itr.end - itr.ptr

\* the call returns Some(v), from the back or from the front
ItSome(itr, v, from_back) ==
    [itr EXCEPT !.ret = <<v>>,
                !.front = IF from_back THEN itr.front ELSE Append(itr.front, v),
                !.back = IF from_back THEN Append(itr.back, v) ELSE itr.back,
                !.again = itr.again \/ itr.none]

\* the call returns None
ItNone(itr) == [itr EXCEPT !.ret = <<>>, !.none = TRUE]

\* IntoIterator for the wrapper: Iter::new(self)
IntoIter(i) ==
    /\ status = "run" /\ it.kind = "none" /\ Live(i)
    /\ it' = [NoIter EXCEPT !.kind = "owned", !.slot = i, !.pos = 0,
                            !.len = Len(data(World, hs[i].st))]
    /\ UNCHANGED <<hs, shared, vecs, status, last, snap, steps>>

\* IntoIterator for &wrapper: SliceIter::new(self)
IterRef(i) ==
    /\ status = "run" /\ it.kind = "none" /\ Live(i)
    /\ it' = [NoIter EXCEPT !.kind = "slice", !.slot = i, !.ptr = 0,
                            !.end = Len(data(World, hs[i].st))]
    /\ UNCHANGED <<hs, shared, vecs, status, last, snap, steps>>

\* Iter::next
IterNext ==
    /\ status = "run" /\ it.kind = "owned"
    /\ it' = IF it.pos >= it.len THEN ItNone(it)
             ELSE [ItSome(it, data(World, hs[it.slot].st)[it.pos + 1], FALSE)
                      EXCEPT !.pos = it.pos + 1]
    /\ UNCHANGED <<hs, shared, vecs, status, last, snap, steps>>

\* Iter::next_back
IterNextBack ==
    /\ status = "run" /\ it.kind = "owned"
    /\ it' = IF it.pos >= it.len THEN ItNone(it)
             ELSE [ItSome(it, data(World, hs[it.slot].st)[it.len], TRUE)
                      EXCEPT !.len = it.len - 1]
    /\ UNCHANGED <<hs, shared, vecs, status, last, snap, steps>>

\* SliceIter::next
SliceIterNext ==
    /\ status = "run" /\ it.kind = "slice"
    /\ it' = IF it.ptr = it.end THEN ItNone(it)
             ELSE [ItSome(it, data(World, hs[it.slot].st)[it.ptr + 1], FALSE)
                      EXCEPT !.ptr = it.ptr + 1]
    /\ UNCHANGED <<hs, shared, vecs, status, last, snap, steps>>

\* SliceIter::next_back
SliceIterNextBack ==
    /\ status = "run" /\ it.kind = "slice"
    /\ it' = IF it.ptr = it.end THEN ItNone(it)
             ELSE [ItSome(it, data(World, hs[it.slot].st)[it.end], TRUE)
                      EXCEPT !.end = it.end - 1]
    /\ UNCHANGED <<hs, shared, vecs, status, last, snap, steps>>

\* lengths of the buffers the client iterates over
IterLens == {0, 1, 2, SmallLen, BigLen}

\* a client that holds one buffer (inline or vector-backed, any wrapper) and
\* iterates over it, by value or by reference, from both ends
NextIter ==
    \/ \E i \in Slots : IntoIter(i)
    \/ \E i \in Slots : IterRef(i)
    \/ IterNext
    \/ IterNextBack
    \/ SliceIterNext
    \/ SliceIterNextBack

SpecIter ==
    /\ \E wr \in Wrappers, n \in IterLens :
          StartWith(S_from_data(Mk(Empty, 1, wr), 1, SrcData(n)), 0)
    /\ [][NextIter]_vars

(***************************************************************************)
(* Views used by the properties                                            *)
(***************************************************************************)
Now == [hs |-> hs, shared |-> shared, vecs |-> vecs]

Bytes(i) == data(Now, hs[i].st)

OutOfLine(i) == Live(i) /\ ~is_inline(hs[i].st.tag)

\* the start of the allocation a handle's tag keeps alive: the vector it owns,
\* the vector of its Shared block, the static data; -1 for a tag that is none
Backing(i) ==
    LET st == hs[i].st
    IN CASE Kind(st.tag) = "Static" -> 0
         [] Kind(st.tag) = "Vec" -> st.ptr - VecOffset(st.tag)
         [] Kind(st.tag) = "Shared" /\ st.tag \in ShAddrs /\ shared[st.tag].live ->
               shared[st.tag].ptr
         [] OTHER -> 0 - 1

WindowsDisjoint(i, j) ==
    \/ hs[i].st.cap = 0
    \/ hs[j].st.cap = 0
    \/ hs[i].st.ptr + hs[i].st.cap <= hs[j].st.ptr
    \/ hs[j].st.ptr + hs[j].st.cap <= hs[i].st.ptr

Holders(rc) == {i \in Slots : Live(i) /\ hs[i].st.tag = rc}

AppendOps == {"put_u8", "put_slice", "extend_from_slice", "write_str"}

\* C1: the capacity window of every live out-of-line mutable handle is disjoint
\* from the window of every other live handle on the same backing allocation
C1_ExclusiveWindows ==
    status = "run" =>
        \A i \in Slots, j \in Slots :
            (i # j /\ OutOfLine(i) /\ OutOfLine(j) /\ hs[i].w \in Mutable
               /\ Backing(i) >= 0 /\ Backing(i) = Backing(j))
            => WindowsDisjoint(i, j)

\* a mutable handle and another handle with nonempty windows on one allocation
C1_TwoWindows ==
    /\ status = "run"
    /\ \E i \in Slots, j \in Slots :
          /\ i # j /\ OutOfLine(i) /\ OutOfLine(j) /\ hs[i].w \in Mutable
          /\ Backing(i) >= 0 /\ Backing(i) = Backing(j)
          /\ hs[i].st.cap > 0 /\ hs[j].st.cap > 0

\* C2: the ref_count of each live Shared block is the number of live Storage
\* values whose tag points to it
C2_RefCount ==
    status = "run" =>
        \A rc \in ShAddrs :
            shared[rc].live => shared[rc].ref_count = Cardinality(Holders(rc))

\* a block that went from three holders to two by a drop or a merge
C2_CountedDown ==
    /\ status = "run"
    /\ last.op \in {"drop", "try_unsplit", "advance", "reserve"}
    /\ \E rc \in ShAddrs :
          /\ shared[rc].live /\ shared[rc].ref_count = 2
          /\ last.tag = rc /\ rc \notin {hs[k].st.tag : k \in {last.h, last.o}}

\* C3: a Shared block and its vector are released exactly once, when the last
\* Storage pointing into it goes away: every live block has a holder and a live
\* vector, every tag that is a block address points to a live block, and the
\* allocator is never handed a vector a second time
C3_ReleasedOnce ==
    /\ last.res # "badfree"
    /\ status = "run" =>
          /\ \A rc \in ShAddrs :
                shared[rc].live =>
                    /\ Holders(rc) # {}
                    /\ shared[rc].ptr % MaxVecCap = 0
                    /\ vecs[shared[rc].ptr \div MaxVecCap].live
                    /\ vecs[shared[rc].ptr \div MaxVecCap].cap = shared[rc].cap
          /\ \A i \in Slots :
                (Live(i) /\ hs[i].st.tag \in ShAddrs) => shared[hs[i].st.tag].live

\* the drop of the last handle of a block released the block and its vector
C3_LastDropped ==
    /\ status = "run" /\ last.op = "drop" /\ last.res = "ok" /\ last.rel = 1
    /\ last.tag \in ShAddrs /\ ~shared[last.tag].live
    /\ \A a \in AllocIds : ~vecs[a].live

\* C4: the original and the clone keep the bytes they had when the clone was
\* made for as long as only the other one is operated on
C4_CloneIndependent ==
    status = "run" =>
        \A k \in Slots : snap[k].set => (Live(k) /\ Bytes(k) = snap[k].bytes)

\* C5: no mutable wrapper ever holds a Static storage; try_mut/try_ext on a
\* static UnBytes is Err and leaves it as it was; From<UnBytes> and
\* extend_from_slice on a static UnBytes succeed with the bytes in a storage
\* that is not Static
C5_NoStaticMutable ==
    /\ \A i \in Slots : (Live(i) /\ hs[i].w \in Mutable) => ~is_static(hs[i].st.tag)
    /\ (last.op = "try_mut" /\ is_static(last.tag)) =>
          /\ last.res = "err" /\ status = "run"
          /\ hs[last.h].w = "Ro" /\ is_static(hs[last.h].st.tag)
          /\ Bytes(last.h) = last.pre
    /\ (last.op = "from_ro" /\ is_static(last.tag)) =>
          /\ last.res = "ok" /\ status = "run"
          /\ hs[last.h].w \in Mutable /\ Bytes(last.h) = last.pre
    /\ (last.op = "extend_from_slice" /\ is_static(last.tag) /\ last.arg > 0) =>
          /\ last.res = "ok" /\ status = "run"
          /\ ~is_static(hs[last.h].st.tag)
          /\ Bytes(last.h) = last.pre \o AppData(last.arg)

\* try_mut or try_ext was refused on a static UnBytes
C5_StaticRefused ==
    /\ last.op = "try_mut" /\ is_static(last.tag) /\ Len(last.pre) > 0
    /\ last.res = "err"

\* C6: when reserve(additional) returns, reserved_len() is at least additional
C6_ReserveEnsures ==
    (last.op = "reserve" /\ last.res = "ok") =>
        reserved_len(hs[last.h].st) >= last.arg

\* C7: put_u8, put_slice, extend_from_slice and write_str on an UnBytesExt
\* return without a panic and leave the old bytes followed by the appended ones
C7_ExtAppends ==
    (last.op \in AppendOps /\ hs[last.h].w = "Ext") =>
        /\ last.res = "ok" /\ status = "run"
        /\ Bytes(last.h) = last.pre \o AppData(last.arg)

\* C8: after tail = x.split_off(at) with 0 < at <= len, x holds the original
\* bytes [0, at) and tail the original bytes [at, len)
C8_SplitOff ==
    (last.op = "split_off" /\ 0 < last.arg /\ last.arg <= Len(last.pre)) =>
        /\ last.res = "ok" /\ status = "run"
        /\ Bytes(last.h) = SubSeq(last.pre, 1, last.arg)
        /\ Bytes(last.o) = SubSeq(last.pre, last.arg + 1, Len(last.pre))

\* C9: head = x.split_to(at) with at <= len returns the original bytes [0, at)
\* and leaves x the original bytes [at, len); take() does so with at = len
C9_SplitTo ==
    (last.op \in {"split_to", "take"} /\ last.arg <= Len(last.pre)) =>
        /\ last.res = "ok" /\ status = "run"
        /\ Bytes(last.o) = SubSeq(last.pre, 1, last.arg)
        /\ Bytes(last.h) = SubSeq(last.pre, last.arg + 1, Len(last.pre))

\* C10: x.try_unsplit(x.split_off(at)) with at <= len on a storage that is not
\* an OwnedVector with nonzero offset returns Ok and leaves x with the bytes it
\* had before the split
C10_SplitOffTryUnsplit ==
    [][(/\ last.op = "split_off" /\ last.res = "ok" /\ status = "run"
        /\ last.arg <= Len(last.pre)
        /\ ~(is_vec(last.tag) /\ VecOffset(last.tag) # 0)
        /\ last'.op = "try_unsplit" /\ last'.h = last.h /\ last'.o = last.o)
       => (/\ last'.res = "ok" /\ status' = "run"
           /\ Bytes(last.h)' = last.pre)]_vars

\* C11: after tail = x.split_off(at) with at <= len, x.unsplit(tail) returns
\* and leaves x with the length and the bytes it had before the split, for
\* every wrapper and backend
C11_SplitOffUnsplit ==
    [][(/\ last.op = "split_off" /\ last.res = "ok" /\ status = "run"
        /\ last.arg <= Len(last.pre)
        /\ last'.op = "unsplit" /\ last'.h = last.h /\ last'.o = last.o)
       => (/\ last'.res = "ok" /\ status' = "run"
           /\ len(hs[last.h].st)' = Len(last.pre)
           /\ Bytes(last.h)' = last.pre)]_vars

\* C12: advance(skip) with skip <= len leaves len() and remaining() at the old
\* length minus skip and the data at the old data from index skip on, and
\* with skip equal to the capacity the storage is the empty inline storage;
\* advance(skip) with skip > len panics
C12_Advance ==
    last.op = "advance" =>
        IF last.arg <= Len(last.pre)
        THEN /\ last.res = "ok" /\ status = "run"
             /\ len(hs[last.h].st) = Len(last.pre) - last.arg
             /\ remaining(hs[last.h].st) = Len(last.pre) - last.arg
             /\ Bytes(last.h) = SubSeq(last.pre, last.arg + 1, Len(last.pre))
             /\ last.arg = last.cap =>
                    (is_inline(hs[last.h].st.tag) /\ is_inline_empty(hs[last.h].st.tag))
        ELSE last.res = "panic"

SliceOps == {"slice", "slice_from", "slice_to"}

\* the range [SliceBegin, SliceEnd) the last slicing call asked for
SliceBegin ==
    IF last.op = "slice" THEN last.arg[1]
    ELSE IF last.op = "slice_from" THEN last.arg ELSE 0

SliceEnd ==
    IF last.op = "slice" THEN last.arg[2]
    ELSE IF last.op = "slice_to" THEN last.arg ELSE Len(last.pre)

\* C13: slice(begin, end) with begin <= end <= len returns a handle whose
\* bytes are data[begin..end] and leaves the source's bytes and length as they
\* were; slice_from(begin) does so for [begin, len) and slice_to(end) for
\* [0, end)
C13_Slice ==
    (last.op \in SliceOps /\ SliceBegin <= SliceEnd /\ SliceEnd <= Len(last.pre)) =>
        /\ last.res = "ok" /\ status = "run"
        /\ Live(last.o)
        /\ Bytes(last.o) = SubSeq(last.pre, SliceBegin + 1, SliceEnd)
        /\ Bytes(last.h) = last.pre
        /\ len(hs[last.h].st) = Len(last.pre)

\* C14: slice(begin, end) with begin > end or end > len panics and returns no
\* handle, the empty range begin == end > len included
C14_SlicePanics ==
    (last.op = "slice" /\ (SliceBegin > SliceEnd \/ SliceEnd > Len(last.pre))) =>
        /\ last.res = "panic"
        /\ ~Live(last.o)

\* C15: try_mut and try_ext return Err exactly for a Static storage and for a
\* Shared one with ref_count > 1, and Ok otherwise; on Err the UnBytes handed
\* back has the bytes, length, capacity, backend and ref_count it had
C15_TryMut ==
    last.op = "try_mut" =>
        /\ last.res \in {"ok", "err"} /\ status = "run"
        /\ last.res = "err" <=>
              (is_static(last.tag) \/ (Kind(last.tag) = "Shared" /\ last.cnt > 1))
        /\ last.res = "ok" => hs[last.h].w \in Mutable
        /\ last.res = "err" =>
              /\ hs[last.h].w = "Ro"
              /\ Bytes(last.h) = last.pre
              /\ len(hs[last.h].st) = Len(last.pre)
              /\ capacity(hs[last.h].st) = last.cap
              /\ hs[last.h].st.tag = last.tag
              /\ IsBlock(Now, last.tag) => shared[last.tag].ref_count = last.cnt

\* the receiver of the last call was the only live handle on its backing
\* when the call was made (only a Shared block is ever shared; the call
\* changed no other handle)
SoleOwner == Kind(last.tag) = "Shared" => Holders(last.tag) \subseteq {last.h}

\* C16: try_mut/try_ext on an UnBytes that is not Static and whose backing no
\* other live handle shares (all clones, halves and slices dropped, or the
\* buffer just frozen) returns Ok, and the mutable wrapper has the length and
\* the bytes the UnBytes had
C16_SoleOwnerUpgrades ==
    (last.op = "try_mut" /\ ~is_static(last.tag) /\ SoleOwner) =>
        /\ last.res = "ok" /\ status = "run"
        /\ hs[last.h].w \in Mutable
        /\ len(hs[last.h].st) = Len(last.pre)
        /\ Bytes(last.h) = last.pre

\* C17: try_into_vec returns Ok exactly for an OwnedVector storage and for a
\* Shared one with ref_count 1; on Ok((vec, offset)) vec.len() is offset + len,
\* vec[offset..] holds the handle's bytes, the Shared block is released and
\* the vector is still allocated; on Err the handle handed back has the
\* bytes, length, backend and ref_count it had
C17_TryIntoVec ==
    last.op = "try_into_vec" =>
        /\ last.res \in {"ok", "err"} /\ status = "run"
        /\ last.res = "ok" <=>
              (Kind(last.tag) = "Vec" \/ (Kind(last.tag) = "Shared" /\ last.cnt = 1))
        /\ last.res = "ok" =>
              /\ ~Live(last.h)
              /\ last.out.len = last.out.off + Len(last.pre)
              /\ VecBytes(Now, last.out, last.out.off, last.out.len - last.out.off)
                    = last.pre
              /\ last.out.ptr % MaxVecCap = 0
              /\ vecs[last.out.ptr \div MaxVecCap].live
              /\ vecs[last.out.ptr \div MaxVecCap].cap = last.out.cap
              /\ Kind(last.tag) = "Shared" => (last.rel = 1 /\ ~shared[last.tag].live)
        /\ last.res = "err" =>
              /\ Live(last.h)
              /\ Bytes(last.h) = last.pre
              /\ len(hs[last.h].st) = Len(last.pre)
              /\ hs[last.h].st.tag = last.tag
              /\ IsBlock(Now, last.tag) => shared[last.tag].ref_count = last.cnt

\* C18: write_str(s) on an UnBytesMut with reserved_len() < s.len() returns the
\* formatter error and leaves length, bytes and capacity as they were; with
\* reserved_len() >= s.len() it returns Ok, appends the bytes of s and leaves
\* the capacity as it was
C18_WriteStrMut ==
    (last.op = "write_str" /\ hs[last.h].w = "Mut") =>
        /\ status = "run"
        /\ capacity(hs[last.h].st) = last.cap
        /\ IF last.cap - Len(last.pre) < last.arg
           THEN /\ last.res = "err"
                /\ len(hs[last.h].st) = Len(last.pre)
                /\ Bytes(last.h) = last.pre
           ELSE /\ last.res = "ok"
                /\ Bytes(last.h) = last.pre \o AppData(last.arg)

\* a nonempty UnBytesMut refused a string one byte longer than its reserve
C18_WriteStrRefused ==
    /\ last.op = "write_str" /\ hs[last.h].w = "Mut" /\ status = "run"
    /\ last.res = "err" /\ Len(last.pre) > 0
    /\ last.arg = last.cap - Len(last.pre) + 1

\* C19: the slice reserved() returns on a storage that is not Static starts
\* right after the data, has length capacity() - len() == reserved_len() and
\* ends at or before the end of the capacity (inline: of the inline payload)
C19_ReservedSlice ==
    \A i \in Slots :
        (Live(i) /\ hs[i].w \in Mutable /\ ~is_static(hs[i].st.tag)) =>
            /\ reserved_len(hs[i].st) = capacity(hs[i].st) - len(hs[i].st)
            /\ reserved_slice_len(hs[i].st) = capacity(hs[i].st) - len(hs[i].st)
            /\ reserved_begin(hs[i].st) + reserved_slice_len(hs[i].st)
                  <= (IF is_inline(hs[i].st.tag) THEN INLINE_CAPACITY
                      ELSE hs[i].st.ptr + hs[i].st.cap)

\* C20: for every live handle data().len() == len(), is_empty() holds exactly
\* when len() == 0, and remaining() == len()
C20_LenAgrees ==
    \A i \in Slots :
        Live(i) =>
            /\ Len(Bytes(i)) = len(hs[i].st)
            /\ is_empty(hs[i].st) <=> (len(hs[i].st) = 0)
            /\ remaining(hs[i].st) = len(hs[i].st)

\* a nonempty inline handle, a nonempty out-of-line handle and an empty handle
C20_AllKinds ==
    /\ status = "run"
    /\ \E i \in Slots : Live(i) /\ is_inline(hs[i].st.tag) /\ Len(Bytes(i)) > 0
    /\ \E i \in Slots : Live(i) /\ ~is_inline(hs[i].st.tag) /\ Len(Bytes(i)) > 0
    /\ \E i \in Slots : Live(i) /\ is_empty(hs[i].st)

\* C21: from_slice(b) has len |b| and the bytes b and is Inline (capacity
\* INLINE_CAPACITY, reserved_len INLINE_CAPACITY - len) exactly when
\* |b| <= INLINE_CAPACITY, otherwise an OwnedVector with capacity >= |b|;
\* with_capacity(n) has len 0 and capacity >= n and is Inline exactly when
\* n <= INLINE_CAPACITY; new() is the empty inline storage
C21_Construction ==
    /\ last.op = "from_slice" =>
          /\ last.res = "ok" /\ status = "run"
          /\ len(hs[last.h].st) = last.arg
          /\ Bytes(last.h) = SrcData(last.arg)
          /\ is_inline(hs[last.h].st.tag) <=> (last.arg <= INLINE_CAPACITY)
          /\ is_inline(hs[last.h].st.tag) =>
                /\ capacity(hs[last.h].st) = INLINE_CAPACITY
                /\ reserved_len(hs[last.h].st) = INLINE_CAPACITY - len(hs[last.h].st)
          /\ ~is_inline(hs[last.h].st.tag) =>
                /\ Kind(hs[last.h].st.tag) = "Vec"
                /\ capacity(hs[last.h].st) >= last.arg
    /\ last.op = "with_capacity" =>
          /\ last.res = "ok" /\ status = "run"
          /\ len(hs[last.h].st) = 0
          /\ capacity(hs[last.h].st) >= last.arg
          /\ is_inline(hs[last.h].st.tag) <=> (last.arg <= INLINE_CAPACITY)
          /\ ~is_inline(hs[last.h].st.tag) => Kind(hs[last.h].st.tag) = "Vec"
    /\ last.op = "new" =>
          /\ last.res = "ok" /\ status = "run"
          /\ hs[last.h].st = StorageNew
          /\ is_inline(hs[last.h].st.tag) /\ len(hs[last.h].st) = 0

\* a slice of INLINE_CAPACITY + 1 bytes went to a vector while a handle built
\* from INLINE_CAPACITY bytes or with that capacity is inline
C21_AtTheBoundary ==
    /\ last.op = "from_slice" /\ last.arg = INLINE_CAPACITY + 1
    /\ Kind(hs[last.h].st.tag) = "Vec"
    /\ \E i \in Slots :
          Live(i) /\ is_inline(hs[i].st.tag) /\ i # last.h
             /\ len(hs[i].st) \in {0, INLINE_CAPACITY}

\* C22: from_vec(v, o) with o <= v.len() has len v.len() - o and the bytes
\* v[o..] and panics for o > v.len(); it is Inline exactly when
\* v.len() - o <= INLINE_CAPACITY and otherwise an OwnedVector on v itself, so
\* that an immediate try_into_vec returns v (same allocation, length,
\* capacity and contents) and the offset o
C22_FromVec ==
    /\ [](last.op = "from_vec_at" =>
            IF last.arg[2] <= last.arg[1]
            THEN /\ last.res = "ok" /\ status = "run"
                 /\ len(hs[last.h].st) = last.arg[1] - last.arg[2]
                 /\ Bytes(last.h) = SubSeq(SrcData(last.arg[1]), last.arg[2] + 1, last.arg[1])
                 /\ is_inline(hs[last.h].st.tag) <=>
                       (last.arg[1] - last.arg[2] <= INLINE_CAPACITY)
                 /\ ~is_inline(hs[last.h].st.tag) =>
                       /\ Kind(hs[last.h].st.tag) = "Vec"
                       /\ VecOffset(hs[last.h].st.tag) = last.arg[2]
            ELSE last.res = "panic" /\ ~Live(last.h))
    /\ [][\A n \in {IF last.op = "from_vec_at" THEN last.arg[1] ELSE 0},
             o \in {IF last.op = "from_vec_at" THEN last.arg[2] ELSE 0} :
            (/\ last.op = "from_vec_at" /\ last.res = "ok"
             /\ n - o > INLINE_CAPACITY
             /\ last'.op = "try_into_vec" /\ last'.h = last.h)
            => (/\ last'.res = "ok" /\ status' = "run"
                /\ last'.out.off = o
                /\ last'.out.len = n
                /\ last'.out.ptr = hs[last.h].st.ptr - o
                /\ last'.out.cap = hs[last.h].st.cap + o
                /\ (VecBytes(Now, last.out, 0, n))' = SrcData(n))]_vars

\* a vector taken in at a nonzero offset was handed back by try_into_vec
C22_HandedBack ==
    /\ last.op = "try_into_vec" /\ last.res = "ok" /\ status = "run"
    /\ last.out.off > 0 /\ last.out.len - last.out.off > INLINE_CAPACITY
    /\ Kind(last.tag) = "Vec"

C24_Truncate ==
    [][\A h \in Slots, k \in {last'.arg} :
          (last'.op = "truncate" /\ last'.h = h) =>
              /\ last'.res = "ok" /\ status' = "run"
              /\ len(hs'[h].st) = Min({k, len(hs[h].st)})
              /\ Bytes(h)' = SubSeq(Bytes(h), 1, Min({k, len(hs[h].st)}))
              /\ capacity(hs'[h].st) = capacity(hs[h].st)
              /\ Kind(hs'[h].st.tag) = Kind(hs[h].st.tag)
              /\ hs'[h].st.ptr = hs[h].st.ptr
              /\ shared' = shared
              /\ k >= len(hs[h].st) => (hs' = hs /\ vecs' = vecs)
              /\ k = 0 => (len(hs'[h].st) = 0 /\ is_empty(hs'[h].st))]_vars

\* a handle of a Shared block was cut short, and not to nothing
C24_SharedCutShort ==
    /\ last.op = "truncate" /\ last.res = "ok" /\ status = "run"
    /\ 0 < last.arg /\ last.arg < Len(last.pre)
    /\ IsBlock(Now, last.tag) /\ shared[last.tag].ref_count = 2
    /\ len(hs[last.h].st) = last.arg

\* C25: for Iter and SliceIter, after any interleaving of next() and
\* next_back(), len() (and size_hint) is the number of bytes not yet yielded,
\* next() has yielded the first bytes in order and next_back() the last ones
\* in reverse order, no byte twice, None comes only when all are yielded, and
\* no Some comes after a None
C25_Iterators ==
    it.kind # "none" =>
        /\ Len(it.front) + Len(it.back) <= Len(Bytes(it.slot))
        /\ iter_len(it) = Len(Bytes(it.slot)) - (Len(it.front) + Len(it.back))
        /\ it.front = SubSeq(Bytes(it.slot), 1, Len(it.front))
        /\ \A k \in 1 .. Len(it.back) :
              it.back[k] = Bytes(it.slot)[Len(Bytes(it.slot)) - k + 1]
        /\ (it.none /\ it.ret = <<>>) =>
              Len(it.front) + Len(it.back) = Len(Bytes(it.slot))
        /\ ~it.again

\* C26: a.try_unsplit(b) is Ok when b is empty, and when a is empty, a then
\* holding b's bytes; with both non-empty it is Ok exactly when both storages
\* are out-of-line, neither is an OwnedVector and a.ptr + a.len = b.ptr; in
\* every other case it is Err(b) with b as it was and a's bytes, length,
\* capacity, backend and every ref_count as they were
C26_TryUnsplit ==
    [][\A a \in Slots, b \in Slots :
          (last'.op = "try_unsplit" /\ last'.h = a /\ last'.o = b) =>
              IF \/ is_empty(hs[b].st)
                 \/ is_empty(hs[a].st)
                 \/ /\ ~is_inline(hs[a].st.tag) /\ ~is_inline(hs[b].st.tag)
                    /\ ~is_vec(hs[a].st.tag) /\ ~is_vec(hs[b].st.tag)
                    /\ hs[a].st.ptr + hs[a].st.len = hs[b].st.ptr
              THEN /\ last'.res = "ok" /\ status' = "run"
                   /\ hs'[a].w # "Free" /\ hs'[b].w = "Free"
                   /\ (is_empty(hs[a].st) /\ ~is_empty(hs[b].st)) => Bytes(a)' = Bytes(b)
              ELSE /\ last'.res = "err" /\ status' = "run"
                   /\ hs'[b] = hs[b] /\ Bytes(b)' = Bytes(b)
                   /\ Bytes(a)' = Bytes(a)
                   /\ len(hs'[a].st) = len(hs[a].st)
                   /\ capacity(hs'[a].st) = capacity(hs[a].st)
                   /\ Kind(hs'[a].st.tag) = Kind(hs[a].st.tag)
                   /\ shared' = shared]_vars

\* C27: the tag of every OwnedVector storage has the low bits 01 and decodes
\* to the distance of ptr from the start of a live vector, and the capacity
\* window lies inside that vector; after advance(skip) with 0 < skip < cap on
\* an OwnedVector the storage still is an OwnedVector and its encoded offset
\* has grown by exactly skip
C27_VecTag ==
    /\ status = "run" =>
          \A i \in Slots :
              (Live(i) /\ Kind(hs[i].st.tag) = "Vec") =>
                  /\ hs[i].st.tag % 4 = 1
                  /\ Backing(i) % MaxVecCap = 0
                  /\ vecs[Backing(i) \div MaxVecCap].live
                  /\ hs[i].st.ptr + hs[i].st.cap
                        <= Backing(i) + vecs[Backing(i) \div MaxVecCap].cap
    /\ (/\ last.op = "advance" /\ Kind(last.tag) = "Vec"
        /\ 0 < last.arg /\ last.arg < last.cap /\ last.arg <= Len(last.pre)) =>
          /\ last.res = "ok" /\ status = "run"
          /\ Kind(hs[last.h].st.tag) = "Vec"
          /\ VecOffset(hs[last.h].st.tag) = VecOffset(last.tag) + last.arg

\* C28: reserve(additional) on an OwnedVector or a uniquely owned Shared
\* block whose window is too small: when len + additional fits the whole
\* vector and the offset is positive, the content moves to the start of the
\* same vector, the offset becomes 0 and the vector keeps its capacity;
\* otherwise, when the offset is below 32, the vector is grown to hold
\* len + additional and the offset is kept; otherwise the content goes to a
\* fresh storage that holds len + additional
C28_ReservePaths ==
    [][\A h \in Slots : \A n \in {last'.arg}, off \in {hs[h].st.ptr - Backing(h)} :
          (/\ last'.op = "reserve" /\ last'.h = h
           /\ \/ Kind(hs[h].st.tag) = "Vec"
              \/ IsBlock(Now, hs[h].st.tag) /\ shared[hs[h].st.tag].ref_count = 1
           /\ n > 0 /\ hs[h].st.len + n > hs[h].st.cap) =>
              /\ last'.res = "ok" /\ status' = "run"
              /\ Kind(hs'[h].st.tag) \in {"Vec", "Inline"}
              /\ capacity(hs'[h].st) >= hs[h].st.len + n
              /\ IF /\ hs[h].st.len + n <= vecs[Backing(h) \div MaxVecCap].cap
                    /\ off > 0
                 THEN /\ Kind(hs'[h].st.tag) = "Vec"
                      /\ VecOffset(hs'[h].st.tag) = 0
                      /\ hs'[h].st.ptr = Backing(h)
                      /\ vecs'[Backing(h) \div MaxVecCap] = vecs[Backing(h) \div MaxVecCap]
                 ELSE IF off < KeepOffsetBelow
                 THEN /\ Kind(hs'[h].st.tag) = "Vec"
                      /\ VecOffset(hs'[h].st.tag) = off
                 ELSE /\ hs'[h].st.ptr # hs[h].st.ptr
                      /\ Kind(hs'[h].st.tag) = "Vec" => VecOffset(hs'[h].st.tag) = 0]_vars

\* C29: reserve(additional) returns and leaves len() and the bytes of its
\* storage as they were, whichever path it takes, and leaves the length and
\* the bytes seen through every other handle as they were; reserve(0) changes
\* nothing at all
C29_ReserveKeepsData ==
    [][\A h \in Slots :
          (last'.op = "reserve" /\ last'.h = h) =>
              /\ last'.res = "ok" /\ status' = "run"
              /\ len(hs'[h].st) = len(hs[h].st)
              /\ Bytes(h)' = Bytes(h)
              /\ \A k \in Slots \ {h} :
                    Live(k) => (/\ hs'[k].w = hs[k].w
                                /\ len(hs'[k].st) = len(hs[k].st)
                                /\ Bytes(k)' = Bytes(k))
              /\ last'.arg = 0 => (hs' = hs /\ shared' = shared /\ vecs' = vecs)]_vars

\* the calls that hand out a second handle without copying the buffer
ShareOps == SliceOps \cup {"split_off", "split_to", "take"}

\* C30: split_off, split_to, take, slice, slice_from, slice_to and
\* UnBytes::clone allocate no vector, whatever the backend; the only
\* allocation is one Shared block when the receiver is an OwnedVector, which
\* the call turns into a shared one
C30_SharingAllocates ==
    [][\A h \in Slots :
          (/\ last'.h = h
           /\ \/ last'.op \in ShareOps
              \/ last'.op = "clone" /\ hs[h].w = "Ro") =>
              /\ \A a \in AllocIds : vecs'[a].live => vecs'[a] = vecs[a]
              /\ Cardinality({rc \in ShAddrs : shared'[rc].live /\ ~shared[rc].live})
                    <= (IF Kind(hs[h].st.tag) = "Vec" THEN 1 ELSE 0)]_vars

\* the clone of a vector-backed UnBytes put the vector into a new Shared block
C30_VectorBoxed ==
    /\ last.op = "clone" /\ last.res = "ok" /\ status = "run"
    /\ Kind(last.tag) = "Vec" /\ hs[last.h].w = "Ro" /\ Len(last.pre) > INLINE_CAPACITY
    /\ IsBlock(Now, hs[last.h].st.tag)
    /\ shared[hs[last.h].st.tag].ref_count = 2
    /\ Cardinality({rc \in ShAddrs : shared[rc].live}) = 1

\* C30 as stated: these calls make no heap allocation on any backend, an
\* OwnedVector included
C30_NoAllocation ==
    [][\A h \in Slots :
          (/\ last'.h = h
           /\ \/ last'.op \in ShareOps
              \/ last'.op = "clone" /\ hs[h].w = "Ro") =>
              /\ \A a \in AllocIds : vecs'[a].live => vecs[a].live
              /\ \A rc \in ShAddrs : shared'[rc].live => shared[rc].live]_vars

\* C31: a try_unsplit that succeeds with both operands non-empty merges two
\* windows of one backing allocation, and the receiver's window then lies
\* inside the allocation its own tag keeps alive (the vector of its Shared
\* block, the static data), also when another allocation is adjacent
C31_MergeStaysInside ==
    [][\A a \in Slots, b \in Slots :
          (/\ last'.op = "try_unsplit" /\ last'.h = a /\ last'.o = b
           /\ last'.res = "ok"
           /\ ~is_empty(hs[a].st) /\ ~is_empty(hs[b].st)) =>
              /\ Backing(a) >= 0 /\ Backing(a) = Backing(b)
              /\ hs'[a].st.tag = hs[a].st.tag
              /\ IF is_static(hs[a].st.tag)
                 THEN hs'[a].st.ptr + hs'[a].st.cap <= StaticLen
                 ELSE /\ IsBlock(Now, hs[a].st.tag)'
                      /\ shared'[hs[a].st.tag].ptr <= hs'[a].st.ptr
                      /\ hs'[a].st.ptr + hs'[a].st.cap
                            <= shared'[hs[a].st.tag].ptr + shared'[hs[a].st.tag].cap]_vars

\* C32: no write of put_slice, put_u8, append or extend leaves the reserved
\* range of its storage: nothing outside every allocation (or past the inline
\* payload) is written and no other handle sees a byte change; put_slice and
\* put_u8 of an UnBytesMut never allocate, and with data that does not fit
\* they panic with no byte written
C32_WritesStayInside ==
    [][\A h \in Slots :
          (/\ last'.h = h /\ hs[h].w \in Mutable
           /\ last'.op \in {"put_slice", "put_u8", "extend_from_slice"}) =>
              /\ ~last'.stray
              /\ \A k \in Slots \ {h} :
                    Live(k) => (hs'[k] = hs[k] /\ Bytes(k)' = Bytes(k))
              /\ (hs[h].w = "Mut" /\ last'.op \in {"put_slice", "put_u8"}) =>
                    /\ shared' = shared
                    /\ \A a \in AllocIds :
                          vecs'[a].live = vecs[a].live /\ vecs'[a].cap = vecs[a].cap
                    /\ last'.arg > reserved_len(hs[h].st) =>
                          /\ last'.res = "panic"
                          /\ vecs' = vecs
                          /\ hs'[h] = hs[h]]_vars

====
